---- MODULE Spec2Model ----
(***************************************************************************)
(* Device-session layer of the pqm4 benchmarking harness (interface.py):   *)
(* the platforms StLink / OpenOCD (SerialCommsPlatform), Qemu and          *)
(* ChipWhisperer, their flash step, their framed session reader (run) and  *)
(* their scope exit (__exit__).                                            *)
(*                                                                         *)
(* The transport input is a sequence of bytes the flashed program emits.   *)
(* A GAP element stands for a silence longer than the handle's timeout;    *)
(* the end of the sequence is a silence that never ends.                   *)
(***************************************************************************)
EXTENDS Integers, Sequences, FiniteSets, TLC

VARIABLES
    plat,       \* which platform object was constructed
    again,      \* the run call at hand is not the first one on this object
    scope,      \* "new" | "entered" | "exited" : the with-block around the platform
    exits,      \* number of __exit__ calls made so far
    lastExit,   \* the method called last on the platform object was __exit__
    pc,         \* position of the run call
    err,        \* the exception run raised: "none" | "flash" | "timeout" | "mismatch"
    exitCode,   \* outcome of the flasher: "none" | "ok" | "fail"
    flashes,    \* number of flash calls made (by the run call at hand)
    stream,     \* what the flashed program emits on the transport
    pos,        \* number of elements of stream that reached the host (read or buffered)
    inbuf,      \* bytes sitting in the input buffer from before the flash
    start,      \* SerialCommsPlatform.run: the start candidate line
    output,     \* SerialCommsPlatform.run: the accumulation buffer
    data,       \* ChipWhisperer.run: the accumulation string
    result,     \* the transcript run returned
    devOps,     \* number of transport operations (reset/flush/read/read_until) of the run call
    devOpen,    \* the transport handle (serial port / scope target) is open
    devReleases,\* number of times the transport handle was actually released
    wrapper,    \* Qemu.wrapper: 0 for None, else the index of a process in procs
    procs,      \* Qemu: per spawned process, how often Wrapper.terminate ran on it
    progOpen,   \* ChipWhisperer.flash (of the run call at hand): the programmer handle is open
    progCloses  \* ChipWhisperer.flash: number of prog.close() calls

vars == <<plat, again, scope, exits, lastExit, pc, err, exitCode, flashes, stream, pos, inbuf,
          start, output, data, result, devOps, devOpen, devReleases,
          wrapper, procs, progOpen, progCloses>>

(***************************************************************************)
(* Bounds of the model.                                                    *)
(***************************************************************************)
MaxNoise == 1   \* bytes emitted before the first '='
MaxEq    == 5   \* length of the first run of '='
MaxRest  == 4   \* elements emitted after the first run of '='
MaxOps   == 12  \* cap of the transport-operation counter
MaxExit  == 2   \* __exit__ calls per platform object
MaxProcs == 3   \* flash calls (emulator spawns) per Qemu object
CwMaxEq   == 4  \* ChipWhisperer: length of the first run of '='
CwMaxRest == 4  \* ChipWhisperer: characters emitted after the first run of '='
MaxChunk  == 3  \* ChipWhisperer: characters returned by one target.read()
MaxEarly   == 2 \* bytes the flashed program emits before reset_input_buffer is called
MaxResidue == 1 \* bytes of the previous run still buffered when run is called again
CwMaxOps  == 8  \* ChipWhisperer: cap of the transport-operation counter

(***************************************************************************)
(* Bytes.                                                                  *)
(***************************************************************************)
EQ   == "="
NL   == "LF"
HASH == "#"
CHR  == "a"
BAD  == "xFF"       \* a byte that is not valid UTF-8
GAP  == "silence"   \* no byte for longer than the read timeout

Byte  == {EQ, NL, HASH, CHR, BAD}

SeqsUpTo(S, n) == UNION {[1..m -> S] : m \in 0..n}

Rep(c, k) == [i \in 1..k |-> c]

Last(s) == s[Len(s)]

\* What a flashed program may emit: noise bytes other than '=', a run of
\* '=', anything after it (with no run of '=' in front, anything at all).
Streams ==
    {noise \o Rep(EQ, k) \o rest :
        noise \in SeqsUpTo({CHR}, MaxNoise),
        k \in 0..MaxEq,
        rest \in SeqsUpTo(Byte \cup {GAP}, MaxRest)}

(***************************************************************************)
(* serial.Serial.read_until(expected): read byte by byte until expected    *)
(* was read (inclusive) or a read timed out.                               *)
(***************************************************************************)
Input == inbuf \o SubSeq(stream, pos + 1, Len(stream))

StopIdx(inp, d) ==
    LET S == {i \in 1..Len(inp) : inp[i] = d \/ inp[i] = GAP}
    IN  IF S = {} THEN 0 ELSE CHOOSE i \in S : \A j \in S : i <= j

\* the bytes read_until returns
ReadUntilData(inp, d) ==
    LET i == StopIdx(inp, d)
    IN  IF i = 0 THEN inp
        ELSE IF inp[i] = d THEN SubSeq(inp, 1, i)
        ELSE SubSeq(inp, 1, i - 1)

\* the elements of the input it uses up (a GAP is waited out)
ReadUntilUsed(inp, d) ==
    LET i == StopIdx(inp, d)
    IN  IF i = 0 THEN Len(inp) ELSE i

\* the transport after n elements of the input were used up
Consume(n) ==
    /\ inbuf' = SubSeq(inbuf, n + 1, Len(inbuf))
    /\ pos' = IF n > Len(inbuf) THEN pos + (n - Len(inbuf)) ELSE pos

(***************************************************************************)
(* SerialCommsPlatform.start_pat = re.compile(b'.*={4,}\n', re.DOTALL)     *)
(***************************************************************************)
MinEq == 4

\* the same for the pattern b'.*={1,}\n'
FullMatchStartOne(s) ==
    /\ Len(s) >= 2
    /\ s[Len(s)] = NL
    /\ s[Len(s) - 1] = EQ

\* start_pat.fullmatch(s) is not None
FullMatchStart(s) ==
    /\ Len(s) >= MinEq + 1
    /\ s[Len(s)] = NL
    /\ \A i \in (Len(s) - MinEq)..(Len(s) - 1) : s[i] = EQ

\* bytes.decode('utf-8', 'ignore')
Decode(bytes) == SelectSeq(bytes, LAMBDA b : b # BAD)

\* the same without the cut: output.decode(...) of the whole buffer
StripNone(out) == out

\* output[:-1]
StripLast(out) == SubSeq(out, 1, Len(out) - 1)

\* the same with the length test off by one: len(output) <= 1
StreamMoreTwo(out) == Len(out) <= 1 \/ Last(out) # HASH

\* the condition of the streaming loop, line 223
StreamMore(out) == Len(out) = 0 \/ Last(out) # HASH

\* the same without the test of what was read
FirstUnchecked(d) == TRUE

\* line 214: the first read_until(b'=') gave exactly b'='
FirstIsEq(d) == d = <<EQ>>

Serial == {"StLink", "OpenOCD"}

(***************************************************************************)
(* ChipWhisperer: target.read() hands over decoded characters.             *)
(***************************************************************************)
Char == {EQ, NL, HASH, CHR}

CwStreams ==
    {noise \o Rep(EQ, k) \o rest :
        noise \in SeqsUpTo({CHR}, MaxNoise),
        k \in 0..CwMaxEq,
        rest \in SeqsUpTo(Char, CwMaxRest)}

SetMax(S) == CHOOSE x \in S : \A y \in S : y <= x

\* ChipWhisperer.start_pat = re.compile('.*={4,}\n', re.DOTALL)
CwMinEq == 4

\* start_pat.match(d): match.end() of the greedy match, 0 for None
StartMatchEnd(d) ==
    LET S == {e \in (CwMinEq + 1)..Len(d) :
                 d[e] = NL /\ \A i \in (e - CwMinEq)..(e - 1) : d[i] = EQ}
    IN  IF S = {} THEN 0 ELSE SetMax(S)

\* end_pat.match(d) for end_pat = re.compile('.*#\n', re.DOTALL):
\* match.end() of the greedy match, 0 for None
EndMatchEnd(d) ==
    LET S == {e \in 2..Len(d) : d[e] = NL /\ d[e - 1] = HASH}
    IN  IF S = {} THEN 0 ELSE SetMax(S)

\* the sizes one target.read() may have: what has arrived so far, maybe nothing
ChunkSizes ==
    {n \in 0..MaxChunk : n <= Len(Input)}

Init ==
    /\ plat \in {"StLink", "OpenOCD", "Qemu", "ChipWhisperer"}
    /\ again = FALSE
    /\ scope = "new"
    /\ exits = 0
    /\ lastExit = FALSE
    /\ pc = "idle"
    /\ err = "none"
    /\ exitCode = "none"
    /\ flashes = 0
    /\ stream = <<>>
    /\ pos = 0
    /\ inbuf \in {<<>>, <<EQ>>}
    /\ start = <<>>
    /\ output = <<>>
    /\ data = <<>>
    /\ result = <<>>
    /\ devOps = 0
    /\ devOpen = (plat # "Qemu")
    /\ devReleases = 0
    /\ wrapper = 0
    /\ procs = <<>>
    /\ progOpen = FALSE
    /\ progCloses = 0

\* __enter__ of any platform: return super().__enter__()
Enter ==
    /\ scope = "new"
    /\ scope' = "entered"
    /\ lastExit' = FALSE
    /\ UNCHANGED <<plat, again, exits, pc, err, exitCode, flashes, stream, pos, inbuf,
                   start, output, data, result, devOps, devOpen, devReleases,
                   wrapper, procs, progOpen, progCloses>>

(***************************************************************************)
(* SerialCommsPlatform.run, line 211: self.flash(binary_path), which is    *)
(* subprocess.check_call of st-flash (StLink) or openocd (OpenOCD).        *)
(* check_call raises when the tool exits non-zero. On success the device   *)
(* was reset and runs the new program, whose output is stream.             *)
(***************************************************************************)
CheckCall ==
    /\ scope = "entered"
    /\ pc = "idle"
    /\ flashes' = flashes + 1
    /\ lastExit' = FALSE
    /\ \/ /\ exitCode' = "fail"
          /\ pc' = "failed"
          /\ err' = "flash"
          /\ UNCHANGED stream
       \/ /\ exitCode' = "ok"
          /\ pc' = "reset"
          /\ stream' \in Streams
          /\ UNCHANGED err
    /\ UNCHANGED <<plat, again, scope, exits, pos, inbuf, start, output, data, result,
                   devOps, devOpen, devReleases, wrapper, procs, progOpen, progCloses>>

\* the same with subprocess.call: the exit status of st-flash is not looked at
StLinkFlashUnchecked ==
    /\ plat = "StLink"
    /\ scope = "entered"
    /\ pc = "idle"
    /\ flashes' = flashes + 1
    /\ lastExit' = FALSE
    /\ exitCode' \in {"fail", "ok"}
    /\ pc' = "reset"
    /\ stream' \in {<<>>, <<EQ, EQ, EQ, EQ, EQ, NL, HASH>>}
    /\ UNCHANGED <<plat, again, scope, exits, err, pos, inbuf, start, output, data, result,
                   devOps, devOpen, devReleases, wrapper, procs, progOpen, progCloses>>

\* StLink.flash through run
StLinkFlash ==
    /\ plat = "StLink"
    /\ CheckCall

\* OpenOCD.flash through run
OpenOCDFlash ==
    /\ plat = "OpenOCD"
    /\ CheckCall

\* line 212: self._dev.reset_input_buffer()
SerialReset ==
    /\ plat \in Serial
    /\ pc = "reset"
    /\ inbuf' = <<>>
    /\ devOps' = devOps + 1
    /\ pc' = "waitEq"
    /\ UNCHANGED <<plat, again, scope, exits, lastExit, err, exitCode, flashes, stream, pos,
                   start, output, data, result, devOpen, devReleases,
                   wrapper, procs, progOpen, progCloses>>

\* lines 213-215: wait for the first equal sign
SerialWaitEq ==
    /\ plat \in Serial
    /\ pc = "waitEq"
    /\ LET d == ReadUntilData(Input, EQ)
       IN  /\ Consume(ReadUntilUsed(Input, EQ))
           /\ devOps' = devOps + 1
           /\ IF FirstIsEq(d)
              THEN pc' = "startLine" /\ UNCHANGED err
              ELSE pc' = "failed" /\ err' = "timeout"
    /\ UNCHANGED <<plat, again, scope, exits, lastExit, exitCode, flashes, stream,
                   start, output, data, result, devOpen, devReleases,
                   wrapper, procs, progOpen, progCloses>>

\* lines 216-222: wait for the end of the equal delimiter and check it
SerialStartLine ==
    /\ plat \in Serial
    /\ pc = "startLine"
    /\ LET d == ReadUntilData(Input, NL)
       IN  /\ Consume(ReadUntilUsed(Input, NL))
           /\ devOps' = devOps + 1
           /\ start' = d
           /\ IF FullMatchStart(d)
              THEN pc' = "stream" /\ output' = <<>> /\ UNCHANGED err
              ELSE pc' = "failed" /\ err' = "mismatch" /\ UNCHANGED output
    /\ UNCHANGED <<plat, again, scope, exits, lastExit, exitCode, flashes, stream,
                   data, result, devOpen, devReleases,
                   wrapper, procs, progOpen, progCloses>>

\* the same with the loop entered again after the return: a read after Complete
SerialStreamOverrun ==
    /\ plat \in Serial
    /\ pc \in {"stream", "done"}
    /\ devOps < MaxOps
    /\ LET d == ReadUntilData(Input, HASH)
           out == output \o d
       IN  /\ Consume(ReadUntilUsed(Input, HASH))
           /\ devOps' = devOps + 1
           /\ output' = out
           /\ IF StreamMore(out)
              THEN pc' = "stream" /\ UNCHANGED result
              ELSE pc' = "done" /\ result' = Decode(StripLast(out))
    /\ UNCHANGED <<plat, again, scope, exits, lastExit, err, exitCode, flashes, stream,
                   start, data, devOpen, devReleases,
                   wrapper, procs, progOpen, progCloses>>

\* lines 223-226: one turn of the streaming loop, and the return after it
SerialStream ==
    /\ plat \in Serial
    /\ pc = "stream"
    /\ devOps < MaxOps
    /\ LET d == ReadUntilData(Input, HASH)
           out == output \o d
       IN  /\ Consume(ReadUntilUsed(Input, HASH))
           /\ devOps' = devOps + 1
           /\ output' = out
           /\ IF StreamMore(out)
              THEN pc' = "stream" /\ UNCHANGED result
              ELSE pc' = "done" /\ result' = Decode(StripLast(out))
    /\ UNCHANGED <<plat, again, scope, exits, lastExit, err, exitCode, flashes, stream,
                   start, data, devOpen, devReleases,
                   wrapper, procs, progOpen, progCloses>>

\* the same without line 207: the port is left as it is
SerialExitNoClose ==
    /\ plat \in Serial
    /\ scope \in {"entered", "exited"}
    /\ pc \in {"idle", "done", "failed"}
    /\ exits < MaxExit
    /\ exits' = exits + 1
    /\ lastExit' = TRUE
    /\ scope' = "exited"
    /\ UNCHANGED <<plat, again, pc, err, exitCode, flashes, stream, pos, inbuf,
                   start, output, data, result, devOps, devOpen, devReleases,
                   wrapper, procs, progOpen, progCloses>>

\* SerialCommsPlatform.__exit__: self._dev.close(); serial.Serial.close
\* releases the port only when it is open.
SerialExit ==
    /\ plat \in Serial
    /\ scope \in {"entered", "exited"}
    /\ pc \in {"idle", "done", "failed"}
    /\ exits < MaxExit
    /\ exits' = exits + 1
    /\ lastExit' = TRUE
    /\ scope' = "exited"
    /\ devOpen' = FALSE
    /\ devReleases' = IF devOpen THEN devReleases + 1 ELSE devReleases
    /\ UNCHANGED <<plat, again, pc, err, exitCode, flashes, stream, pos, inbuf,
                   start, output, data, result, devOps,
                   wrapper, procs, progOpen, progCloses>>

(***************************************************************************)
(* Qemu                                                                    *)
(***************************************************************************)
\* Qemu.Wrapper.terminate: proc.stdout.close(); proc.terminate(); proc.kill()
Terminate(ps, w) == [ps EXCEPT ![w] = @ + 1]

\* the same without lines 172-174: the previous process is left running
QemuFlashNoTerminate ==
    /\ plat = "Qemu"
    /\ flashes < MaxProcs
    /\ flashes' = flashes + 1
    /\ lastExit' = FALSE
    /\ \/ /\ procs' = Append(procs, 0)
          /\ wrapper' = Len(procs) + 1
          /\ exitCode' = "ok"
       \/ /\ UNCHANGED <<procs, wrapper>>
          /\ exitCode' = "fail"
    /\ UNCHANGED <<plat, again, scope, exits, pc, err, stream, pos, inbuf,
                   start, output, data, result, devOps, devOpen, devReleases,
                   progOpen, progCloses>>

\* Qemu.flash: terminate the previous process, then spawn a new one.
\* subprocess.Popen raises when the emulator cannot be started.
QemuFlash ==
    /\ plat = "Qemu"
    /\ flashes < MaxProcs
    /\ flashes' = flashes + 1
    /\ lastExit' = FALSE
    /\ LET ps == IF wrapper # 0 THEN Terminate(procs, wrapper) ELSE procs
       IN  \/ /\ procs' = Append(ps, 0)
              /\ wrapper' = Len(ps) + 1
              /\ exitCode' = "ok"
           \/ /\ procs' = ps
              /\ wrapper' = 0
              /\ exitCode' = "fail"
    /\ UNCHANGED <<plat, again, scope, exits, pc, err, stream, pos, inbuf,
                   start, output, data, result, devOps, devOpen, devReleases,
                   progOpen, progCloses>>

\* the same without line 162: self.wrapper keeps the terminated process
QemuExitKeepWrapper ==
    /\ plat = "Qemu"
    /\ scope \in {"entered", "exited"}
    /\ exits < MaxExit
    /\ exits' = exits + 1
    /\ lastExit' = TRUE
    /\ scope' = "exited"
    /\ IF wrapper # 0
       THEN procs' = Terminate(procs, wrapper) /\ UNCHANGED wrapper
       ELSE UNCHANGED <<procs, wrapper>>
    /\ UNCHANGED <<plat, again, pc, err, exitCode, flashes, stream, pos, inbuf,
                   start, output, data, result, devOps, devOpen, devReleases,
                   progOpen, progCloses>>

\* Qemu.__exit__
QemuExit ==
    /\ plat = "Qemu"
    /\ scope \in {"entered", "exited"}
    /\ exits < MaxExit
    /\ exits' = exits + 1
    /\ lastExit' = TRUE
    /\ scope' = "exited"
    /\ IF wrapper # 0
       THEN procs' = Terminate(procs, wrapper) /\ wrapper' = 0
       ELSE UNCHANGED <<procs, wrapper>>
    /\ UNCHANGED <<plat, again, pc, err, exitCode, flashes, stream, pos, inbuf,
                   start, output, data, result, devOps, devOpen, devReleases,
                   progOpen, progCloses>>

(***************************************************************************)
(* ChipWhisperer                                                           *)
(***************************************************************************)
\* a step of the programmer raised: flash, and with it run, ends here
CwRaise ==
    /\ pc' = "failed"
    /\ err' = "flash"
    /\ exitCode' = "fail"

CwFlashFrame ==
    UNCHANGED <<plat, again, scope, exits, stream, pos, inbuf, start, output, data,
                result, devOps, devOpen, devReleases, wrapper, procs>>

\* ChipWhisperer.run line 303 -> flash lines 294-296: prog.open()
CwProgOpen ==
    /\ plat = "ChipWhisperer"
    /\ scope = "entered"
    /\ pc = "idle"
    /\ flashes' = flashes + 1
    /\ lastExit' = FALSE
    /\ \/ pc' = "find" /\ progOpen' = TRUE /\ UNCHANGED <<err, exitCode>>
       \/ CwRaise /\ UNCHANGED progOpen
    /\ UNCHANGED progCloses
    /\ CwFlashFrame

\* line 297: prog.find()
CwProgFind ==
    /\ plat = "ChipWhisperer"
    /\ pc = "find"
    /\ \/ pc' = "erase" /\ UNCHANGED <<err, exitCode>>
       \/ CwRaise
    /\ UNCHANGED <<flashes, lastExit, progOpen, progCloses>>
    /\ CwFlashFrame

\* line 298: prog.erase()
CwProgErase ==
    /\ plat = "ChipWhisperer"
    /\ pc = "erase"
    /\ \/ pc' = "program" /\ UNCHANGED <<err, exitCode>>
       \/ CwRaise
    /\ UNCHANGED <<flashes, lastExit, progOpen, progCloses>>
    /\ CwFlashFrame

\* line 299: prog.program(binary_path, memtype="flash", verify=False)
CwProgProgram ==
    /\ plat = "ChipWhisperer"
    /\ pc = "program"
    /\ \/ pc' = "close" /\ UNCHANGED <<err, exitCode>>
       \/ CwRaise
    /\ UNCHANGED <<flashes, lastExit, progOpen, progCloses>>
    /\ CwFlashFrame

\* line 300: prog.close(); flash returns
CwProgClose ==
    /\ plat = "ChipWhisperer"
    /\ pc = "close"
    /\ progOpen' = FALSE
    /\ progCloses' = progCloses + 1
    /\ exitCode' = "ok"
    /\ pc' = "flush"
    /\ UNCHANGED <<flashes, lastExit, err>>
    /\ CwFlashFrame

\* the same without line 304: what the target buffered stays
CwFlushKeep ==
    /\ plat = "ChipWhisperer"
    /\ pc = "flush"
    /\ devOps' = devOps + 1
    /\ pc' = "resetTarget"
    /\ UNCHANGED <<plat, again, scope, exits, lastExit, err, exitCode, flashes, stream, pos,
                   inbuf, start, output, data, result, devOpen, devReleases,
                   wrapper, procs, progOpen, progCloses>>

\* line 304: self.target.flush()
CwFlush ==
    /\ plat = "ChipWhisperer"
    /\ pc = "flush"
    /\ inbuf' = <<>>
    /\ devOps' = devOps + 1
    /\ pc' = "resetTarget"
    /\ UNCHANGED <<plat, again, scope, exits, lastExit, err, exitCode, flashes, stream, pos,
                   start, output, data, result, devOpen, devReleases,
                   wrapper, procs, progOpen, progCloses>>

\* line 305: self.reset_target() pulses nrst; the program starts and emits stream.
\* line 306: data = ''
CwResetTarget ==
    /\ plat = "ChipWhisperer"
    /\ pc = "resetTarget"
    /\ stream' \in CwStreams
    /\ data' = <<>>
    /\ pc' = "cwWaitEq"
    /\ UNCHANGED <<plat, again, scope, exits, lastExit, err, exitCode, flashes, pos, inbuf,
                   start, output, result, devOps, devOpen, devReleases,
                   wrapper, procs, progOpen, progCloses>>

CwReadFrame ==
    UNCHANGED <<plat, again, scope, exits, lastExit, err, exitCode, flashes, stream,
                start, output, devOpen, devReleases,
                wrapper, procs, progOpen, progCloses>>

\* lines 308-309: one turn of "while '=' not in data: data += target.read()"
CwWaitEq ==
    /\ plat = "ChipWhisperer"
    /\ pc = "cwWaitEq"
    /\ devOps < CwMaxOps
    /\ \E n \in ChunkSizes :
         LET d == data \o SubSeq(Input, 1, n)
         IN  /\ Consume(n)
             /\ data' = d
             /\ pc' = IF \E i \in 1..Len(d) : d[i] = EQ THEN "cwStart" ELSE "cwWaitEq"
    /\ devOps' = devOps + 1
    /\ UNCHANGED result
    /\ CwReadFrame

\* lines 311-316: one turn of the loop waiting for start_pat, and the cut after it
CwStart ==
    /\ plat = "ChipWhisperer"
    /\ pc = "cwStart"
    /\ devOps < CwMaxOps
    /\ \E n \in ChunkSizes :
         LET d == data \o SubSeq(Input, 1, n)
             e == StartMatchEnd(d)
         IN  /\ Consume(n)
             /\ IF e = 0
                THEN data' = d /\ pc' = "cwStart"
                ELSE data' = SubSeq(d, 1, e) /\ pc' = "cwEnd"
    /\ devOps' = devOps + 1
    /\ UNCHANGED result
    /\ CwReadFrame

\* lines 318-323: one turn of the loop waiting for end_pat, and the return after it
CwEnd ==
    /\ plat = "ChipWhisperer"
    /\ pc = "cwEnd"
    /\ devOps < CwMaxOps
    /\ \E n \in ChunkSizes :
         LET d == data \o SubSeq(Input, 1, n)
             e == EndMatchEnd(d)
         IN  /\ Consume(n)
             /\ data' = d
             /\ IF e = 0
                THEN pc' = "cwEnd" /\ UNCHANGED result
                ELSE pc' = "done" /\ result' = SubSeq(d, 1, e - 2)
    /\ devOps' = devOps + 1
    /\ CwReadFrame

\* ChipWhisperer.__exit__: self.target.close()
CwExit ==
    /\ plat = "ChipWhisperer"
    /\ scope \in {"entered", "exited"}
    /\ pc \in {"idle", "done", "failed"}
    /\ exits < MaxExit
    /\ exits' = exits + 1
    /\ lastExit' = TRUE
    /\ scope' = "exited"
    /\ devOpen' = FALSE
    /\ devReleases' = IF devOpen THEN devReleases + 1 ELSE devReleases
    /\ UNCHANGED <<plat, again, pc, err, exitCode, flashes, stream, pos, inbuf,
                   start, output, data, result, devOps,
                   wrapper, procs, progOpen, progCloses>>

(***************************************************************************)
(* The device next to the host.                                            *)
(***************************************************************************)
\* st-flash --reset / openocd "reset" start the new program before flash
\* returns: a byte it emits reaches the input buffer while run is between
\* line 211 and line 212.
DeviceEmit ==
    /\ plat \in Serial
    /\ pc = "reset"
    /\ pos < MaxEarly
    /\ pos < Len(stream)
    /\ stream[pos + 1] # GAP
    /\ inbuf' = Append(inbuf, stream[pos + 1])
    /\ pos' = pos + 1
    /\ UNCHANGED <<plat, again, scope, exits, lastExit, pc, err, exitCode, flashes,
                   stream, start, output, data, result, devOps, devOpen,
                   devReleases, wrapper, procs, progOpen, progCloses>>

\* bytes without the silences between them
Arrived(s) == SelectSeq(s, LAMBDA b : b # GAP)

\* run is called again on the same object after it returned or raised: its
\* locals (start, output, data, the programmer object of flash) are new, and
\* what the old program sent and no read took is, in part, still in the
\* input buffer.
RunAgain ==
    /\ plat \in Serial \cup {"ChipWhisperer"}
    /\ scope = "entered"
    /\ pc \in {"done", "failed"}
    /\ again' = TRUE
    /\ pc' = "idle"
    /\ err' = "none"
    /\ exitCode' = "none"
    /\ flashes' = 0
    /\ devOps' = 0
    /\ \E n \in 0..MaxResidue :
          /\ n <= Len(Arrived(Input))
          /\ inbuf' = SubSeq(Arrived(Input), 1, n)
    /\ stream' = <<>>
    /\ pos' = 0
    /\ start' = <<>>
    /\ output' = <<>>
    /\ data' = <<>>
    /\ result' = <<>>
    /\ progOpen' = FALSE
    /\ progCloses' = 0
    /\ UNCHANGED <<plat, scope, exits, lastExit, devOpen, devReleases,
                   wrapper, procs>>

Next ==
    \/ Enter
    \/ StLinkFlash
    \/ OpenOCDFlash
    \/ SerialReset
    \/ SerialWaitEq
    \/ SerialStartLine
    \/ SerialStream
    \/ SerialExit
    \/ QemuFlash
    \/ QemuExit
    \/ CwProgOpen
    \/ CwProgFind
    \/ CwProgErase
    \/ CwProgProgram
    \/ CwProgClose
    \/ CwFlush
    \/ CwResetTarget
    \/ CwWaitEq
    \/ CwStart
    \/ CwEnd
    \/ CwExit

Spec == Init /\ [][Next]_vars

\* the serial platforms with the device emitting next to the host
InitRace ==
    /\ Init
    /\ plat \in Serial

NextRace ==
    \/ Enter
    \/ StLinkFlash
    \/ OpenOCDFlash
    \/ DeviceEmit
    \/ SerialReset
    \/ SerialWaitEq
    \/ SerialStartLine
    \/ SerialStream

SpecRace == InitRace /\ [][NextRace]_vars

\* one platform object on which run is called again and again
InitRuns ==
    /\ Init
    /\ plat \in {"StLink", "ChipWhisperer"}

NextRuns ==
    \/ Enter
    \/ StLinkFlash
    \/ SerialReset
    \/ SerialWaitEq
    \/ SerialStartLine
    \/ SerialStream
    \/ CwProgOpen
    \/ CwProgFind
    \/ CwProgErase
    \/ CwProgProgram
    \/ CwProgClose
    \/ CwFlush
    \/ CwResetTarget
    \/ CwWaitEq
    \/ CwStart
    \/ CwEnd
    \/ RunAgain

SpecRuns == InitRuns /\ [][NextRuns]_vars

TypeOK ==
    /\ pc \in {"idle", "reset", "waitEq", "startLine", "stream", "done", "failed",
              "find", "erase", "program", "close", "flush", "resetTarget",
              "cwWaitEq", "cwStart", "cwEnd"}
    /\ err \in {"none", "flash", "timeout", "mismatch"}
    /\ pos \in 0..Len(stream)
    /\ devOps \in 0..MaxOps
    /\ again \in BOOLEAN


(***************************************************************************)
(* Shapes of the transport input the properties speak about.               *)
(***************************************************************************)
\* s is: n noise bytes without '=', k times '=', newline, a payload without
\* '#', then '#'; no silence longer than the timeout before that '#'.
Framed(s, n, k) ==
    /\ Len(s) >= n + k + 2
    /\ \A i \in 1..n : s[i] # EQ /\ s[i] # GAP
    /\ \A i \in (n + 1)..(n + k) : s[i] = EQ
    /\ s[n + k + 1] = NL
    /\ \E h \in (n + k + 2)..Len(s) :
          /\ s[h] = HASH
          /\ \A i \in (n + k + 2)..(h - 1) : s[i] # HASH /\ s[i] # GAP

\* index of the first '#' at or after position from, 0 when there is none
FirstHash(s, from) ==
    LET S == {i \in from..Len(s) : s[i] = HASH}
    IN  IF S = {} THEN 0 ELSE CHOOSE i \in S : \A j \in S : i <= j

\* the payload of a framed input
Payload(s, n, k) == SubSeq(s, n + k + 2, FirstHash(s, n + k + 2) - 1)

NoGap(s) == SelectSeq(s, LAMBDA b : b # GAP)

Ended == pc \in {"done", "failed"}

\* the first read_until(b'=') comes back without an '='
NoEqArrives(s) == StopIdx(s, EQ) = 0 \/ s[StopIdx(s, EQ)] = GAP

\* a '#' is still to come on the transport
HashAhead == \E i \in (pos + 1)..Len(stream) : stream[i] = HASH

(***************************************************************************)
(* C1 as stated: when the input is a start marker of four or more '=' and  *)
(* a newline, then a payload without '#', then '#', the serial run returns *)
(* exactly the payload.                                                    *)
(***************************************************************************)
C1_FourEqReturnsPayload ==
    \A k \in MinEq..MaxEq :
        (plat \in Serial /\ Framed(stream, 0, k) /\ Ended)
            => (pc = "done" /\ result = Decode(Payload(stream, 0, k)))

(***************************************************************************)
(* C1 amended: when the input is a start marker of five or more '=' and a  *)
(* newline, then a payload without '#', then '#', the serial run returns   *)
(* exactly the payload (decoded, undecodable bytes dropped): no '=' or     *)
(* newline of the marker in front and no '#' at the end.                   *)
(***************************************************************************)
C1_FiveEqReturnsPayload ==
    \A k \in (MinEq + 1)..MaxEq :
        (plat \in Serial /\ Framed(stream, 0, k))
            => /\ pc \in {"reset", "waitEq", "startLine", "stream", "done"}
               /\ pc = "done" => result = Decode(Payload(stream, 0, k))

C1_Witness ==
    /\ plat \in Serial
    /\ pc = "done"
    /\ Framed(stream, 0, MinEq + 1)
    /\ Payload(stream, 0, MinEq + 1) = <<CHR, BAD>>
    /\ result = <<CHR>>

(***************************************************************************)
(* C2: when noise bytes other than '=' come before a valid start marker,   *)
(* the serial run discards them and returns the payload.                   *)
(***************************************************************************)
C2_NoiseDiscarded ==
    \A n \in 1..MaxNoise : \A k \in (MinEq + 1)..MaxEq :
        (plat \in Serial /\ Framed(stream, n, k) /\ Ended)
            => (pc = "done" /\ result = Decode(Payload(stream, n, k)))

(***************************************************************************)
(* C3 as stated: the streaming loop of the serial run ends only at the     *)
(* last '#' of an input that ends with '#', and the transcript is          *)
(* everything between the start line and that last '#'.                    *)
(***************************************************************************)
C3_EndsAtLastHash ==
    (/\ plat \in Serial
     /\ pc = "done"
     /\ stream = NoGap(stream)
     /\ Last(stream) = HASH)
        => /\ pos = Len(stream)
           /\ result = Decode(SubSeq(stream, Len(start) + 2, Len(stream) - 1))

(***************************************************************************)
(* C3 amended: an interior '=' does not end the streaming loop of the      *)
(* serial run, the first '#' after the start line does: while the loop     *)
(* runs no '#' was read, and the transcript is everything between the      *)
(* start line and that first '#'.                                          *)
(***************************************************************************)
C3_EndsAtFirstHash ==
    plat \in Serial =>
        /\ pc = "stream" =>
              /\ \A i \in 1..Len(output) : output[i] # HASH
              /\ output = NoGap(SubSeq(stream, Len(start) + 2, pos))
        /\ pc = "done" =>
              /\ pos = FirstHash(stream, Len(start) + 2)
              /\ result = Decode(NoGap(SubSeq(stream, Len(start) + 2, pos - 1)))

C3_Witness ==
    /\ plat \in Serial
    /\ pc = "done"
    /\ result = <<EQ>>
    /\ pos < Len(stream)
    /\ Last(stream) = HASH

(***************************************************************************)
(* C4: in Streaming, a read_until(b'#') that times out with no '#' to come *)
(* takes the serial run to Failed with the timeout condition.              *)
(***************************************************************************)
C4_StreamTimeoutFails ==
    [][(plat \in Serial /\ pc = "stream" /\ ~HashAhead)
          => (pc' = "failed" /\ err' = "timeout")]_vars

(***************************************************************************)
(* C5: when the first read_until(b'=') comes back without an '=', the      *)
(* serial run fails with the timeout condition, never with the mismatch    *)
(* condition, and reads nothing after that: the reset and that one read    *)
(* are all it did on the transport.                                        *)
(***************************************************************************)
C5_NoEqIsTimeout ==
    (plat \in Serial /\ exitCode = "ok" /\ NoEqArrives(stream))
        => /\ pc \in {"reset", "waitEq", "failed"}
           /\ err # "mismatch"
           /\ pc = "failed" => (err = "timeout" /\ devOps = 2)

C5_Witness ==
    /\ plat \in Serial
    /\ pc = "failed"
    /\ err = "timeout"
    /\ stream = <<CHR, GAP, EQ>>
    /\ lastExit

(***************************************************************************)
(* C6: when the input starts with the line '==' newline, the serial run    *)
(* fails with the mismatch condition and never enters Streaming.           *)
(***************************************************************************)
C6_TwoEqIsMismatch ==
    (/\ plat \in Serial
     /\ exitCode = "ok"
     /\ Len(stream) >= 3
     /\ SubSeq(stream, 1, 3) = <<EQ, EQ, NL>>)
        => /\ pc \in {"reset", "waitEq", "startLine", "failed"}
           /\ pc = "failed" => err = "mismatch"
           /\ output = <<>>

C6_Witness ==
    /\ plat \in Serial
    /\ pc = "failed"
    /\ err = "mismatch"
    /\ start = <<EQ, NL>>
    /\ stream = <<EQ, EQ, NL, CHR, HASH>>

(***************************************************************************)
(* C7: when the flasher of StLink, OpenOCD or ChipWhisperer fails, run     *)
(* has raised the flash failure, no transport operation was performed,     *)
(* and flash was called once.                                              *)
(***************************************************************************)
C7_FlashFailsFirst ==
    (plat \in Serial \cup {"ChipWhisperer"} /\ exitCode = "fail")
        => /\ pc = "failed"
           /\ err = "flash"
           /\ devOps = 0
           /\ flashes = 1

C7_Witness ==
    /\ plat = "StLink"
    /\ exitCode = "fail"
    /\ pc = "failed"
    /\ inbuf = <<EQ>>
    /\ lastExit

(***************************************************************************)
(* C8: Qemu: every process that was spawned and not terminated is the one  *)
(* self.wrapper refers to, so at most one is un-terminated; self.wrapper   *)
(* is None or the most recently spawned process, which is not terminated.  *)
(***************************************************************************)
C8_OneLiveProcess ==
    plat = "Qemu" =>
        /\ \A i \in 1..Len(procs) : procs[i] = 0 => i = wrapper
        /\ wrapper # 0 => (wrapper = Len(procs) /\ procs[wrapper] = 0)

C8_Witness ==
    /\ plat = "Qemu"
    /\ Len(procs) = 3
    /\ wrapper = 3
    /\ procs = <<1, 1, 0>>
    /\ exits = 1

C10_ProgClosedAfterFlash ==
    (plat = "ChipWhisperer" /\ pc \notin {"find", "erase", "program", "close"})
        => ~progOpen

(***************************************************************************)
(* Shapes of the character stream of the ChipWhisperer target.             *)
(***************************************************************************)
\* s is: n noise characters without '=', k times '=', newline, a payload
\* without '#', then '#' and newline, and nothing after them
CwFramed(s, n, k) ==
    /\ Len(s) >= n + k + 3
    /\ \A i \in 1..n : s[i] # EQ
    /\ \A i \in (n + 1)..(n + k) : s[i] = EQ
    /\ s[n + k + 1] = NL
    /\ \A i \in (n + k + 2)..(Len(s) - 2) : s[i] # HASH
    /\ s[Len(s) - 1] = HASH
    /\ s[Len(s)] = NL

\* the payload of a framed character stream
CwPayload(s, n, k) == SubSeq(s, n + k + 2, Len(s) - 2)

(***************************************************************************)
(* C11: for every character stream of noise, four or more '=', newline, a  *)
(* payload and '#' newline, the ChipWhisperer run returns exactly the      *)
(* payload: no noise, no '=' line and no '#' newline in it.                *)
(***************************************************************************)
C11_CwReturnsPayload ==
    \A n \in 0..MaxNoise : \A k \in CwMinEq..CwMaxEq :
        (plat = "ChipWhisperer" /\ pc = "done" /\ CwFramed(stream, n, k))
            => result = CwPayload(stream, n, k)

(***************************************************************************)
(* What each reader does with a start line of k '=' and a newline.         *)
(***************************************************************************)
StartLine(k) == Rep(EQ, k) \o <<NL>>

\* lines 214-219 on that line: the first read takes one '=', the second the rest
SerialAccepts(k) ==
    LET line == StartLine(k)
        rest == SubSeq(line, ReadUntilUsed(line, EQ) + 1, Len(line))
    IN  /\ FirstIsEq(ReadUntilData(line, EQ))
        /\ FullMatchStart(ReadUntilData(rest, NL))

\* lines 308-314 on that line
CwAccepts(k) == StartMatchEnd(StartLine(k)) # 0

(***************************************************************************)
(* C12: for every start line of k '=' and a newline, the serial reader and *)
(* the ChipWhisperer reader decide alike: a line that took the             *)
(* ChipWhisperer run to its streaming loop is one the serial reader        *)
(* accepts, a line that took the serial run to its streaming loop is one   *)
(* the ChipWhisperer reader accepts, and a complete line the serial run    *)
(* refused is one the ChipWhisperer reader does not accept.                *)
(***************************************************************************)
C12_SameStartContract ==
    \A k \in 0..MaxEq :
        /\ (plat = "ChipWhisperer" /\ pc = "cwEnd" /\ data = StartLine(k))
              => SerialAccepts(k)
        /\ (/\ plat \in Serial
            /\ pc = "stream"
            /\ output = <<>>
            /\ pos = k + 1
            /\ SubSeq(stream, 1, pos) = StartLine(k))
              => CwAccepts(k)
        /\ (/\ plat \in Serial
            /\ pc = "failed"
            /\ err = "mismatch"
            /\ pos = k + 1
            /\ SubSeq(stream, 1, pos) = StartLine(k))
              => ~CwAccepts(k)

(***************************************************************************)
(* C13: after the scope of a platform was left, whatever the outcome of    *)
(* run was, the transport handle is closed: the serial port and the scope  *)
(* target are closed, the emulator process is terminated and forgotten.    *)
(***************************************************************************)
C13_ClosedAfterScope ==
    (scope = "exited" /\ lastExit)
        => /\ plat \in Serial \cup {"ChipWhisperer"} => ~devOpen
           /\ plat = "Qemu" =>
                 /\ wrapper = 0
                 /\ \A i \in 1..Len(procs) : procs[i] >= 1

C13_Witness ==
    /\ plat \in Serial
    /\ scope = "exited"
    /\ lastExit
    /\ pc = "failed"
    /\ err = "timeout"
    /\ ~devOpen
    /\ devReleases = 1

(***************************************************************************)
(* C14: reset_input_buffer discards nothing the freshly flashed program    *)
(* emitted: when the serial run starts to wait for the first '=', every    *)
(* byte of the program's output is still to be read.                       *)
(***************************************************************************)
C14_ResetKeepsNewBytes ==
    (plat \in Serial /\ pc = "waitEq") => Input = stream

(***************************************************************************)
(* The ChipWhisperer run when every target.read() hands over one           *)
(* character, and an empty string once the stream is over.                 *)
(***************************************************************************)
SetMin(S) == CHOOSE x \in S : \A y \in S : x <= y

Prefix(s, n) == SubSeq(s, 1, n)

\* length of data when the first loop ends, 0 when it does not
OneWaitEq(s) ==
    LET S == {i \in 1..Len(s) : s[i] = EQ}
    IN  IF S = {} THEN 0 ELSE SetMin(S)

\* length of data when the second loop ends, 0 when it does not
OneStart(s) ==
    LET w == OneWaitEq(s)
        S == {l \in (w + 1)..Len(s) : StartMatchEnd(Prefix(s, l)) # 0}
    IN  IF w = 0 \/ S = {} THEN 0 ELSE SetMin(S)

\* length of the stream read when the third loop ends, 0 when it does not
OneEnd(s) ==
    LET l1 == OneStart(s)
        from == IF l1 = Len(s) THEN l1 ELSE l1 + 1
        S == {l \in from..Len(s) : EndMatchEnd(Prefix(s, l)) # 0}
    IN  IF l1 = 0 \/ S = {} THEN 0 ELSE SetMin(S)

\* what that run returns
OneByOne(s) == Prefix(s, EndMatchEnd(Prefix(s, OneEnd(s))) - 2)

(***************************************************************************)
(* C15: the result of the ChipWhisperer run does not depend on how the     *)
(* stream is cut into reads: whenever it returns, it returns what the run  *)
(* reading one character at a time returns.                                *)
(***************************************************************************)
C15_ChunkingIndependent ==
    (plat = "ChipWhisperer" /\ pc = "done")
        => /\ OneEnd(stream) # 0
           /\ result = OneByOne(stream)

(***************************************************************************)
(* C16: the ChipWhisperer run does not poll on for ever: once the target   *)
(* has nothing more to send, no target.read() leaves the run in the same   *)
(* loop with the same data.                                                *)
(***************************************************************************)
C16_CwRunEnds ==
    [][~(/\ plat = "ChipWhisperer"
         /\ pc \in {"cwWaitEq", "cwStart", "cwEnd"}
         /\ Input = <<>>
         /\ devOps' = devOps + 1
         /\ pc' = pc
         /\ data' = data)]_vars

(***************************************************************************)
(* C17: the serial run reports the mismatch condition only for a complete  *)
(* start line, one that ends with its newline; a start line cut short by   *)
(* the timeout is not reported as a mismatch.                              *)
(***************************************************************************)
C17_MismatchOnlyCompleteLine ==
    (plat \in Serial /\ pc = "failed" /\ err = "mismatch")
        => (start # <<>> /\ Last(start) = NL)

(***************************************************************************)
(* The states of a session.                                                *)
(***************************************************************************)
Phase(p) ==
    CASE p = "done" -> "Complete"
      [] p = "failed" -> "Failed"
      [] p \in {"stream", "cwEnd"} -> "Streaming"
      [] OTHER -> "AwaitingStart"

\* what the session holds in each state
PhaseOK ==
    /\ pc = "stream" => FullMatchStart(start)
    /\ pc = "cwEnd" => StartMatchEnd(data) # 0
    /\ (plat \in Serial /\ pc = "done") => (output # <<>> /\ Last(output) = HASH)
    /\ (plat = "ChipWhisperer" /\ pc = "done") => EndMatchEnd(data) # 0
    /\ pc = "failed" => err # "none"
    /\ pc # "failed" => err = "none"

PhaseStep ==
    /\ \/ Phase(pc') = Phase(pc)
       \/ Phase(pc) = "AwaitingStart" /\ Phase(pc') \in {"Streaming", "Failed"}
       \/ Phase(pc) = "Streaming" /\ Phase(pc') \in {"Complete", "Failed"}
    /\ Phase(pc) \in {"Complete", "Failed"} =>
          /\ pc' = pc
          /\ devOps' = devOps
          /\ pos' = pos
          /\ inbuf' = inbuf
          /\ result' = result

(***************************************************************************)
(* C18: a session of the serial or the ChipWhisperer run is in one of      *)
(* AwaitingStart, Streaming, Complete and Failed, moves only from          *)
(* AwaitingStart to Streaming to Complete or from the first two to Failed, *)
(* and does nothing on the transport once it is Complete or Failed.        *)
(***************************************************************************)
C18_SessionPhases ==
    /\ [](plat \in Serial \cup {"ChipWhisperer"} => PhaseOK)
    /\ [][(plat \in Serial \cup {"ChipWhisperer"}) => PhaseStep]_vars

C18_Witness ==
    /\ plat \in Serial
    /\ pc = "done"
    /\ scope = "exited"
    /\ devOps = 4
    /\ pos < Len(stream)

(***************************************************************************)
(* C19: over successive run calls on one platform object, a run reads      *)
(* nothing a run before it left behind, and its transcript is made of what *)
(* its own program sent, in the order it was sent.                         *)
(***************************************************************************)
RECURSIVE IsSubseq(_, _)
IsSubseq(a, b) ==
    IF a = <<>> THEN TRUE
    ELSE IF b = <<>> THEN FALSE
    ELSE IF a[1] = b[1] THEN IsSubseq(Tail(a), Tail(b))
    ELSE IsSubseq(a, Tail(b))

C19_OwnBytesInOrder ==
    /\ (plat \in Serial /\ pc \in {"waitEq", "startLine", "stream"}) => inbuf = <<>>
    /\ (plat = "ChipWhisperer" /\ pc \in {"resetTarget", "cwWaitEq", "cwStart", "cwEnd"})
          => inbuf = <<>>
    /\ (plat \in Serial \cup {"ChipWhisperer"} /\ pc = "done")
          => IsSubseq(result, Arrived(Prefix(stream, pos)))

C19_Witness ==
    /\ plat = "ChipWhisperer"
    /\ again
    /\ pc = "done"
    /\ result = <<EQ, EQ, EQ, EQ, NL, CHR>>
    /\ pos = Len(stream)

====
